---- MODULE Spec2Model ----
(***************************************************************************)
(* Model of the research-paper summarizer:                                  *)
(*   utils/summarizer.py  chunk_text, Summarizer                            *)
(*   utils/pdf_reader.py  _extract_with_pdfplumber, _ocr_with_fitz,         *)
(*                        _layout_aware_fix, extract_text_from_pdf          *)
(* Text is a sequence of one-character strings; " " and "\n" are the        *)
(* whitespace characters of the model.                                      *)
(***************************************************************************)
EXTENDS Integers, Sequences, FiniteSets, TLC

VARIABLES
    model_name,   \* Summarizer.model_name  (None or an identifier)
    tokenizer,    \* Summarizer.tokenizer   (None or the identifier it was built from)
    model,        \* Summarizer.model       (None or the identifier it was built from)
    pipeline,     \* Summarizer.pipeline    (None or the identifier it was built from)
    call,         \* the operation being called, with its arguments
    ret           \* what the call returned or raised (Pending before the call acts)

vars == <<model_name, tokenizer, model, pipeline, call, ret>>

None == "None"

\* ret before the call has acted
Pending == [outcome |-> "pending"]

\* ------------------------------------------------------------------ bounds
MaxTokens == 6      \* longest token sequence drawn for chunk_text
MaxChunkSize == 4   \* largest chunk_size drawn for chunk_text
MaxChunks == 3      \* longest chunk / chunk-summary sequence given to the Summarizer
MaxBatch == 2       \* largest batch_size drawn for summarize_chunks
MaxMinLen == 2      \* largest final_summary_min_length drawn for aggregate_summaries
MaxLines == 3       \* most lines of a text drawn for _layout_aware_fix
MaxPages == 2       \* most pages of a document drawn for extract_text_from_pdf

\* ------------------------------------------------------------------ text
Min2(a, b) == IF a < b THEN a ELSE b

Rep(c, n) == [i \in 1..n |-> c]

IsWs(c) == c \in {" ", "\n"}

\* index of the first non-whitespace character of s, Len(s) + 1 when it has none
FirstNonWs(s) ==
    CHOOSE i \in 1..(Len(s) + 1) :
        /\ (i = Len(s) + 1 \/ ~IsWs(s[i]))
        /\ \A j \in 1..(i - 1) : IsWs(s[j])

\* index of the last non-whitespace character of s, 0 when it has none
LastNonWs(s) ==
    CHOOSE i \in 0..Len(s) :
        /\ (i = 0 \/ ~IsWs(s[i]))
        /\ \A j \in (i + 1)..Len(s) : IsWs(s[j])

\* str.strip(): leading and trailing whitespace removed
Strip(s) == SubSeq(s, FirstNonWs(s), LastNonWs(s))

\* sep.join(parts)
RECURSIVE Join(_, _)
Join(parts, sep) ==
    IF parts = <<>> THEN <<>>
    ELSE IF Len(parts) = 1 THEN parts[1]
    ELSE LET h == Len(parts) \div 2
         IN  Join(SubSeq(parts, 1, h), sep) \o sep
                 \o Join(SubSeq(parts, h + 1, Len(parts)), sep)

\* len(s.split()): the number of maximal runs of non-whitespace characters
WordCount(s) ==
    Cardinality({i \in 1..Len(s) : ~IsWs(s[i]) /\ (i = 1 \/ IsWs(s[i - 1]))})

\* index of the first line break of s at or after i, Len(s) + 1 when none
NextNewline(s, i) ==
    CHOOSE j \in i..(Len(s) + 1) :
        /\ (j = Len(s) + 1 \/ s[j] = "\n")
        /\ \A k \in i..(j - 1) : s[k] # "\n"

\* str.splitlines(): the lines between line breaks; a final line break opens
\* no further line
RECURSIVE SplitLinesFrom(_, _)
SplitLinesFrom(s, i) ==
    IF i > Len(s) THEN <<>>
    ELSE LET j == NextNewline(s, i)
         IN  <<SubSeq(s, i, j - 1)>> \o SplitLinesFrom(s, j + 1)

SplitLines(s) == SplitLinesFrom(s, 1)

\* all sequences over S of length at most n
SeqsUpTo(S, n) == UNION {[1..k -> S] : k \in 0..n}

\* ------------------------------------------------------------ chunk_text
TokenIds == {1, 2}

\* the word a token id stands for
TokenWord(id) == IF id = 1 THEN <<"a">> ELSE <<"b">>

\* tokenizer.decode(token_ids): the tokens' words separated by single spaces
Decode(ids) == Join([i \in 1..Len(ids) |-> TokenWord(ids[i])], <<" ">>)

\* enc[start:end], 0-based and end-exclusive
Slice(s, start, end) == SubSeq(s, start + 1, Min2(end, Len(s)))

\* chunk_text with the window advanced by chunk_size instead of the stride
RECURSIVE ChunkLoopNoOverlap(_, _, _, _, _)
ChunkLoopNoOverlap(enc, chunk_size, overlap, start, chunks) ==
    LET total_tokens == Len(enc)
    IN  IF ~(start < total_tokens) THEN chunks
        ELSE LET end == Min2(start + chunk_size, total_tokens)
                 decoded == Decode(Slice(enc, start, end))
                 out == Append(chunks, Strip(decoded))
             IN  IF end = total_tokens THEN out
                 ELSE ChunkLoopNoOverlap(enc, chunk_size, overlap,
                                         start + chunk_size, out)

\* chunk_text without the break at the window that reaches the end
RECURSIVE ChunkLoopNoBreak(_, _, _, _, _)
ChunkLoopNoBreak(enc, chunk_size, overlap, start, chunks) ==
    LET total_tokens == Len(enc)
        step == chunk_size - overlap
    IN  IF ~(start < total_tokens) THEN chunks
        ELSE LET end == Min2(start + chunk_size, total_tokens)
                 decoded == Decode(Slice(enc, start, end))
                 out == Append(chunks, Strip(decoded))
             IN  ChunkLoopNoBreak(enc, chunk_size, overlap, start + step, out)

\* the while loop of chunk_text, from `start` with `chunks` collected so far
RECURSIVE ChunkLoop(_, _, _, _, _)
ChunkLoop(enc, chunk_size, overlap, start, chunks) ==
    LET total_tokens == Len(enc)
        step == chunk_size - overlap
    IN  IF ~(start < total_tokens) THEN chunks
        ELSE LET end == Min2(start + chunk_size, total_tokens)
                 decoded == Decode(Slice(enc, start, end))
                 out == Append(chunks, Strip(decoded))
             IN  IF end = total_tokens THEN out
                 ELSE ChunkLoop(enc, chunk_size, overlap, start + step, out)

\* chunk_text(text, tokenizer, chunk_size, overlap), enc = tokenizer.encode(text)
ChunkText(enc, chunk_size, overlap) ==
    IF chunk_size <= 0 \/ overlap >= chunk_size \/ overlap < 0
    THEN [outcome |-> "ValueError"]
    ELSE IF Len(enc) = 0
    THEN [outcome |-> "return", value |-> <<>>]
    ELSE [outcome |-> "return",
          value |-> ChunkLoop(enc, chunk_size, overlap, 0, <<>>)]

\* the text and settings of test_chunk_text_token_counts
TestTokens == 1200
TestChunkSize == 256
TestOverlap == 32

ChunkInputs ==
    {[op |-> "chunk_text", enc |-> e, chunk_size |-> cs, overlap |-> ov] :
        e \in SeqsUpTo(TokenIds, MaxTokens),
        cs \in 0..MaxChunkSize, ov \in (-1)..MaxChunkSize}
    \cup {[op |-> "chunk_text", enc |-> Rep(1, TestTokens),
           chunk_size |-> TestChunkSize, overlap |-> TestOverlap]}

ChunkCall ==
    /\ call.op = "chunk_text"
    /\ ret = Pending
    /\ ret' = ChunkText(call.enc, call.chunk_size, call.overlap)
    /\ UNCHANGED <<model_name, tokenizer, model, pipeline, call>>

InitChunk ==
    /\ model_name = None /\ tokenizer = None /\ model = None /\ pipeline = None
    /\ call \in ChunkInputs
    /\ ret = Pending

NextChunk == ChunkCall

SpecChunk == InitChunk /\ [][NextChunk]_vars

\* ------------------------------------------------------------ Summarizer
\* the caller holds no call in progress
Idle == [op |-> "idle"]

\* the model identifiers the application offers
ModelIds == {"t5-small", "sshleifer/distilbart-cnn-12-6"}

\* where a load_model call raises: in AutoTokenizer.from_pretrained, in
\* AutoModelForSeq2SeqLM.from_pretrained, in pipeline(...), or nowhere
LoadFailures == {"none", "tokenizer", "model", "pipeline"}

\* the texts drawn as chunks and as chunk summaries
SummTexts == {<<>>, <<"a">>, <<" ", "b", " ">>}

\* the summary_text the summarization capability gives one text: the stand-in
\* capability of the tests keeps the first 100 characters
SummaryChars == 100
SummaryText(text) == SubSeq(text, 1, Min2(SummaryChars, Len(text)))

\* pipeline(batch, ...): one result per text of the batch, in order
PipelineRun(batch) == [k \in 1..Len(batch) |-> [summary_text |-> SummaryText(batch[k])]]

\* the for loop of summarize_chunks over range(0, len(chunks), batch_size),
\* batch_size > 0, from index i with the summaries and pipeline calls so far
RECURSIVE BatchLoopSkipping(_, _, _, _, _)
BatchLoopSkipping(chunks, batch_size, i, summaries, calls) ==
    IF ~(i < Len(chunks)) THEN [value |-> summaries, calls |-> calls]
    ELSE LET batch == Slice(chunks, i, i + batch_size)
             results == PipelineRun(batch)
             stripped == [k \in 1..Len(results) |-> Strip(results[k].summary_text)]
         IN  BatchLoopSkipping(chunks, batch_size, i + batch_size + 1,
                               summaries \o stripped, Append(calls, batch))

RECURSIVE BatchLoop(_, _, _, _, _)
BatchLoop(chunks, batch_size, i, summaries, calls) ==
    IF ~(i < Len(chunks)) THEN [value |-> summaries, calls |-> calls]
    ELSE LET batch == Slice(chunks, i, i + batch_size)
             results == PipelineRun(batch)
             stripped == [k \in 1..Len(results) |-> Strip(results[k].summary_text)]
         IN  BatchLoop(chunks, batch_size, i + batch_size,
                       summaries \o stripped, Append(calls, batch))

\* summarize_chunks that looks for the pipeline only when there is a batch to run
SummarizeChunksLateGuard(pl, chunks, batch_size) ==
    IF chunks = <<>> THEN [outcome |-> "return", value |-> <<>>, calls |-> <<>>]
    ELSE IF pl = None THEN [outcome |-> "RuntimeError", calls |-> <<>>]
    ELSE IF batch_size = 0 THEN [outcome |-> "ValueError", calls |-> <<>>]
    ELSE IF batch_size < 0
    THEN [outcome |-> "return", value |-> <<>>, calls |-> <<>>]
    ELSE LET r == BatchLoop(chunks, batch_size, 0, <<>>, <<>>)
         IN  [outcome |-> "return", value |-> r.value, calls |-> r.calls]

\* Summarizer.summarize_chunks(chunks, batch_size) with self.pipeline = pl;
\* calls lists the batches handed to the pipeline.  range() raises ValueError
\* for a step of zero and is empty for a negative step.
SummarizeChunks(pl, chunks, batch_size) ==
    IF pl = None THEN [outcome |-> "RuntimeError", calls |-> <<>>]
    ELSE IF batch_size = 0 THEN [outcome |-> "ValueError", calls |-> <<>>]
    ELSE IF batch_size < 0
    THEN [outcome |-> "return", value |-> <<>>, calls |-> <<>>]
    ELSE LET r == BatchLoop(chunks, batch_size, 0, <<>>, <<>>)
         IN  [outcome |-> "return", value |-> r.value, calls |-> r.calls]

\* aggregate_summaries with < in place of <= in the short-circuit test
AggregateSummariesStrict(pl, chunk_summaries, final_summary_min_length) ==
    IF chunk_summaries = <<>>
    THEN [outcome |-> "return", value |-> <<>>, calls |-> <<>>]
    ELSE IF pl = None THEN [outcome |-> "RuntimeError", calls |-> <<>>]
    ELSE LET concat == Join(chunk_summaries, <<"\n", "\n">>)
         IN  IF WordCount(concat) < final_summary_min_length
             THEN [outcome |-> "return", value |-> Strip(concat), calls |-> <<>>]
             ELSE LET result == PipelineRun(<<concat>>)
                  IN  [outcome |-> "return",
                       value |-> Strip(result[1].summary_text),
                       calls |-> <<concat>>]

\* Summarizer.aggregate_summaries(chunk_summaries, _, final_summary_min_length)
\* with self.pipeline = pl; calls lists the texts handed to the pipeline
AggregateSummaries(pl, chunk_summaries, final_summary_min_length) ==
    IF chunk_summaries = <<>>
    THEN [outcome |-> "return", value |-> <<>>, calls |-> <<>>]
    ELSE IF pl = None THEN [outcome |-> "RuntimeError", calls |-> <<>>]
    ELSE LET concat == Join(chunk_summaries, <<"\n", "\n">>)
         IN  IF WordCount(concat) <= final_summary_min_length
             THEN [outcome |-> "return", value |-> Strip(concat), calls |-> <<>>]
             ELSE LET result == PipelineRun(<<concat>>)
                  IN  [outcome |-> "return",
                       value |-> Strip(result[1].summary_text),
                       calls |-> <<concat>>]

\* Summarizer.load_model(model_name = name); fail says where the call raises.
\* built lists the components the call constructed.
LoadModel ==
    /\ call = Idle
    /\ \E name \in ModelIds, fail \in LoadFailures :
         /\ call' = [op |-> "load_model", model_name |-> name, fail |-> fail]
         /\ IF model_name = name /\ pipeline # None
            THEN /\ ret' = [outcome |-> "return", built |-> <<>>]
                 /\ UNCHANGED <<model_name, tokenizer, model, pipeline>>
            ELSE IF fail = "tokenizer"
            THEN /\ ret' = [outcome |-> "Exception", built |-> <<>>]
                 /\ UNCHANGED <<model_name, tokenizer, model, pipeline>>
            ELSE IF fail = "model"
            THEN /\ tokenizer' = name
                 /\ ret' = [outcome |-> "Exception", built |-> <<"tokenizer">>]
                 /\ UNCHANGED <<model_name, model, pipeline>>
            ELSE IF fail = "pipeline"
            THEN /\ tokenizer' = name
                 /\ model' = name
                 /\ ret' = [outcome |-> "Exception",
                            built |-> <<"tokenizer", "model">>]
                 /\ UNCHANGED <<model_name, pipeline>>
            ELSE /\ tokenizer' = name
                 /\ model' = name
                 /\ pipeline' = name
                 /\ model_name' = name
                 /\ ret' = [outcome |-> "return",
                            built |-> <<"tokenizer", "model", "pipeline">>]

SummarizeChunksCall ==
    /\ call = Idle
    /\ \E chunks \in SeqsUpTo(SummTexts, MaxChunks), batch_size \in (-1)..MaxBatch :
         /\ call' = [op |-> "summarize_chunks", chunks |-> chunks,
                     batch_size |-> batch_size]
         /\ ret' = SummarizeChunks(pipeline, chunks, batch_size)
    /\ UNCHANGED <<model_name, tokenizer, model, pipeline>>

AggregateSummariesCall ==
    /\ call = Idle
    /\ \E chunk_summaries \in SeqsUpTo(SummTexts, MaxChunks),
          final_summary_min_length \in 0..MaxMinLen :
         /\ call' = [op |-> "aggregate_summaries",
                     chunk_summaries |-> chunk_summaries,
                     final_summary_min_length |-> final_summary_min_length]
         /\ ret' = AggregateSummaries(pipeline, chunk_summaries,
                                      final_summary_min_length)
    /\ UNCHANGED <<model_name, tokenizer, model, pipeline>>

\* the call has returned or raised: the caller goes on to its next call
Return ==
    /\ call # Idle
    /\ call' = Idle
    /\ ret' = Pending
    /\ UNCHANGED <<model_name, tokenizer, model, pipeline>>

\* Summarizer(): nothing loaded
InitSummarizer ==
    /\ model_name = None /\ tokenizer = None /\ model = None /\ pipeline = None
    /\ call = Idle
    /\ ret = Pending

NextSummarizer ==
    \/ LoadModel
    \/ SummarizeChunksCall
    \/ AggregateSummariesCall
    \/ Return

SpecSummarizer == InitSummarizer /\ [][NextSummarizer]_vars

\* ------------------------------------------------------- _layout_aware_fix
\* a line of this many characters or more is a paragraph by itself
LongLine == 120

Space == <<" ">>
BlankLineSep == <<"\n", "\n">>

\* the for loop of _layout_aware_fix with a long line joining the buffered
\* lines instead of closing them
RECURSIVE LayoutLoopNoFlush(_, _, _, _)
LayoutLoopNoFlush(lines, i, cleaned_lines, buffer) ==
    IF i > Len(lines)
    THEN IF buffer # <<>> THEN Append(cleaned_lines, Join(buffer, Space))
         ELSE cleaned_lines
    ELSE LET line == lines[i]
         IN  IF Strip(line) = <<>>
             THEN IF buffer # <<>>
                  THEN LayoutLoopNoFlush(lines, i + 1,
                           Append(cleaned_lines, Join(buffer, Space)), <<>>)
                  ELSE LayoutLoopNoFlush(lines, i + 1, cleaned_lines, buffer)
             ELSE IF Len(line) < LongLine
             THEN LayoutLoopNoFlush(lines, i + 1, cleaned_lines,
                                    Append(buffer, Strip(line)))
             ELSE LayoutLoopNoFlush(lines, i + 1,
                      Append(cleaned_lines,
                             Join(Append(buffer, Strip(line)), Space)), <<>>)

\* the for loop of _layout_aware_fix from line i (1-based), with the paragraphs
\* emitted and the short lines buffered so far, and the flush after the loop
RECURSIVE LayoutLoop(_, _, _, _)
LayoutLoop(lines, i, cleaned_lines, buffer) ==
    IF i > Len(lines)
    THEN IF buffer # <<>> THEN Append(cleaned_lines, Join(buffer, Space))
         ELSE cleaned_lines
    ELSE LET line == lines[i]
         IN  IF Strip(line) = <<>>
             THEN IF buffer # <<>>
                  THEN LayoutLoop(lines, i + 1,
                           Append(cleaned_lines, Join(buffer, Space)), <<>>)
                  ELSE LayoutLoop(lines, i + 1, cleaned_lines, buffer)
             ELSE IF Len(line) < LongLine
             THEN LayoutLoop(lines, i + 1, cleaned_lines,
                             Append(buffer, Strip(line)))
             ELSE IF buffer # <<>>
             THEN LayoutLoop(lines, i + 1,
                      Append(Append(cleaned_lines, Join(buffer, Space)),
                             Strip(line)), <<>>)
             ELSE LayoutLoop(lines, i + 1,
                      Append(cleaned_lines, Strip(line)), buffer)

\* _layout_aware_fix(raw_text)
LayoutAwareFix(raw_text) ==
    Strip(Join(LayoutLoop(SplitLines(raw_text), 1, <<>>, <<>>), BlankLineSep))

\* the lines drawn for _layout_aware_fix: empty, blank, short (bare and
\* padded), one character below the limit, at the limit (bare and padded), and
\* a blank line of the limit's length
LayoutLines ==
    {<<>>, Space, <<"a">>, <<" ", "b", " ">>,
     Rep("x", LongLine - 1), Rep("y", LongLine),
     Space \o Rep("z", LongLine - 1), Rep(" ", LongLine)}

LayoutInputs ==
    {[op |-> "layout_aware_fix", raw_text |-> Join(ls, <<"\n">>)] :
        ls \in SeqsUpTo(LayoutLines, MaxLines)}

LayoutCall ==
    /\ call.op = "layout_aware_fix"
    /\ ret = Pending
    /\ ret' = [outcome |-> "return", value |-> LayoutAwareFix(call.raw_text)]
    /\ UNCHANGED <<model_name, tokenizer, model, pipeline, call>>

\* --------------------------------------------------- extract_text_from_pdf
\* what page.extract_text() does on a page: raises, returns None, or returns text
PageExtracts ==
    {[kind |-> "raise"], [kind |-> "none"],
     [kind |-> "text", text |-> <<"a", "b">>],
     [kind |-> "text", text |-> Rep("y", LongLine) \o <<"\n", "b">>]}

\* what the OCR pass does on a page: load_page raises; rendering raises;
\* pytesseract raises because the engine is missing (TesseractNotFoundError) or
\* fails (TesseractError); or image_to_string returns text, possibly none
PageOcrs ==
    {[kind |-> "load_raise"],
     [kind |-> "raise", exc |-> "Exception"],
     [kind |-> "raise", exc |-> "TesseractNotFoundError"],
     [kind |-> "raise", exc |-> "TesseractError"],
     [kind |-> "text", text |-> <<>>],
     [kind |-> "text", text |-> <<"c", "d">>]}

Pages == [extract : PageExtracts, ocr : PageOcrs]

\* text_parts of _extract_with_pdfplumber after the pages from i on: a page
\* whose extraction raises or returns None counts as "", and "" is not appended
RECURSIVE PlumberParts(_, _, _)
PlumberParts(pages, i, text_parts) ==
    IF i > Len(pages) THEN text_parts
    ELSE LET txt == IF pages[i].extract.kind = "text"
                    THEN pages[i].extract.text ELSE <<>>
         IN  PlumberParts(pages, i + 1,
                 IF txt # <<>> THEN Append(text_parts, txt) ELSE text_parts)

\* _extract_with_pdfplumber(fp): raises when pdfplumber cannot open the document
ExtractWithPdfplumber(doc) ==
    IF ~doc.plumber_opens THEN [raised |-> "Exception"]
    ELSE [raised |-> "none",
          text |-> Strip(Join(PlumberParts(doc.pages, 1, <<>>), BlankLineSep))]

\* the page loop of _ocr_with_fitz from page i: load_page is outside the try
\* and its exception leaves the function; inside the try every exception is
\* logged and the page skipped; recognised text is appended even when empty
RECURSIVE OcrParts(_, _, _)
OcrParts(pages, i, text_parts) ==
    IF i > Len(pages) THEN [raised |-> "none", text_parts |-> text_parts]
    ELSE IF pages[i].ocr.kind = "load_raise" THEN [raised |-> "Exception"]
    ELSE IF pages[i].ocr.kind = "raise" THEN OcrParts(pages, i + 1, text_parts)
    ELSE OcrParts(pages, i + 1, Append(text_parts, pages[i].ocr.text))

\* _ocr_with_fitz(fp): raises when fitz cannot open the document
OcrWithFitz(doc) ==
    IF ~doc.fitz_opens THEN [raised |-> "Exception"]
    ELSE LET r == OcrParts(doc.pages, 1, <<>>)
         IN  IF r.raised # "none" THEN [raised |-> r.raised]
             ELSE [raised |-> "none",
                   text |-> Strip(Join(r.text_parts, BlankLineSep))]

\* the length heuristic with >= in place of >
KeepLongerOrEqual(text, candidate) ==
    IF Len(candidate) >= Len(text) THEN candidate ELSE text

\* the length heuristic of extract_text_from_pdf: the candidate replaces the
\* working text when it is longer
KeepLonger(text, candidate) ==
    IF Len(candidate) > Len(text) THEN candidate ELSE text

\* extract_text_from_pdf(path_or_bytes, ocr_threshold_chars).  The record keeps
\* the working text after each stage (stage1, repaired, after_ocr), whether the
\* repair and OCR stages ran, and what they produced.
ExtractTextFromPdf(doc, ocr_threshold_chars) ==
    LET plumbed == ExtractWithPdfplumber(doc)
        stage1 == IF plumbed.raised = "none" THEN plumbed.text ELSE <<>>
        ran_layout == stage1 # <<>> /\ Len(stage1) < ocr_threshold_chars * 2
        text_fixed == IF ran_layout THEN LayoutAwareFix(stage1) ELSE <<>>
        repaired == IF ran_layout THEN KeepLonger(stage1, text_fixed) ELSE stage1
        ran_ocr == repaired = <<>> \/ Len(repaired) < ocr_threshold_chars
        ocr == IF ran_ocr THEN OcrWithFitz(doc) ELSE [raised |-> "none", text |-> <<>>]
        ocr_text == IF ocr.raised = "none" THEN ocr.text ELSE <<>>
        after_ocr == IF ran_ocr /\ ocr.raised = "none" /\ ocr_text # <<>>
                     THEN KeepLonger(repaired, ocr_text) ELSE repaired
        stages == [stage1 |-> stage1, ran_layout |-> ran_layout,
                   text_fixed |-> text_fixed, repaired |-> repaired,
                   ran_ocr |-> ran_ocr, ocr_raised |-> ocr.raised,
                   ocr_text |-> ocr_text, after_ocr |-> after_ocr]
    IN  IF ran_ocr /\ ocr.raised = "TesseractError"
        THEN [outcome |-> "RuntimeError", stages |-> stages]
        ELSE [outcome |-> "return", value |-> Strip(after_ocr), stages |-> stages]

\* the default ocr_threshold_chars
DefaultOcrThreshold == 200

Thresholds == {2, 3, DefaultOcrThreshold}

ExtractInputs ==
    {[op |-> "extract_text_from_pdf",
      doc |-> [plumber_opens |-> po, fitz_opens |-> fo, pages |-> ps],
      ocr_threshold_chars |-> thr] :
        po \in BOOLEAN, fo \in BOOLEAN,
        ps \in SeqsUpTo(Pages, MaxPages), thr \in Thresholds}

ExtractCall ==
    /\ call.op = "extract_text_from_pdf"
    /\ ret = Pending
    /\ ret' = ExtractTextFromPdf(call.doc, call.ocr_threshold_chars)
    /\ UNCHANGED <<model_name, tokenizer, model, pipeline, call>>

InitPdf ==
    /\ model_name = None /\ tokenizer = None /\ model = None /\ pipeline = None
    /\ call \in LayoutInputs \cup ExtractInputs
    /\ ret = Pending

NextPdf ==
    \/ LayoutCall
    \/ ExtractCall

SpecPdf == InitPdf /\ [][NextPdf]_vars

\* ------------------------------- extract_text_from_pdf, stage by stage
\* ret of a call in progress: at is the stage the call stands before, text the
\* working text, ran the stages that have run so far

\* the OCR condition with <= in place of <
NeedsOcrOrEqual(text, ocr_threshold_chars) ==
    text = <<>> \/ Len(text) <= ocr_threshold_chars

\* `if text and len(text) < (ocr_threshold_chars * 2)`
NeedsLayoutRepair(text, ocr_threshold_chars) ==
    text # <<>> /\ Len(text) < ocr_threshold_chars * 2

\* `if not text or len(text) < ocr_threshold_chars`
NeedsOcr(text, ocr_threshold_chars) ==
    text = <<>> \/ Len(text) < ocr_threshold_chars

ExtractAt(stage) ==
    /\ call.op = "extract_text_from_pdf"
    /\ ret.outcome = "running"
    /\ ret.at = stage

\* the try around _extract_with_pdfplumber: an exception counts as ""
StructuredStage ==
    /\ call.op = "extract_text_from_pdf"
    /\ ret = Pending
    /\ LET plumbed == ExtractWithPdfplumber(call.doc)
       IN  ret' = [outcome |-> "running", at |-> "LayoutRepair",
                   text |-> IF plumbed.raised = "none" THEN plumbed.text ELSE <<>>,
                   ran |-> <<"Structured">>]
    /\ UNCHANGED <<model_name, tokenizer, model, pipeline, call>>

\* the layout-aware fix of a small, non-empty stage-1 text
LayoutRepairStage ==
    /\ ExtractAt("LayoutRepair")
    /\ NeedsLayoutRepair(ret.text, call.ocr_threshold_chars)
    /\ ret' = [ret EXCEPT !.at = "OCR",
                          !.text = KeepLonger(ret.text, LayoutAwareFix(ret.text)),
                          !.ran = Append(ret.ran, "LayoutRepair")]
    /\ UNCHANGED <<model_name, tokenizer, model, pipeline, call>>

LayoutRepairSkipped ==
    /\ ExtractAt("LayoutRepair")
    /\ ~NeedsLayoutRepair(ret.text, call.ocr_threshold_chars)
    /\ ret' = [ret EXCEPT !.at = "OCR"]
    /\ UNCHANGED <<model_name, tokenizer, model, pipeline, call>>

\* the OCR fallback of a working text that is still too short: a
\* TesseractError leaving _ocr_with_fitz is raised on as RuntimeError, any
\* other exception is logged and the working text kept
OcrStage ==
    /\ ExtractAt("OCR")
    /\ NeedsOcr(ret.text, call.ocr_threshold_chars)
    /\ LET ocr == OcrWithFitz(call.doc)
           ran == Append(ret.ran, "OCR")
       IN  ret' = IF ocr.raised = "TesseractError"
                  THEN [outcome |-> "RuntimeError", ran |-> ran]
                  ELSE [ret EXCEPT
                           !.at = "Done",
                           !.text = IF ocr.raised = "none" /\ ocr.text # <<>>
                                    THEN KeepLonger(ret.text, ocr.text)
                                    ELSE ret.text,
                           !.ran = ran]
    /\ UNCHANGED <<model_name, tokenizer, model, pipeline, call>>

OcrSkipped ==
    /\ ExtractAt("OCR")
    /\ ~NeedsOcr(ret.text, call.ocr_threshold_chars)
    /\ ret' = [ret EXCEPT !.at = "Done"]
    /\ UNCHANGED <<model_name, tokenizer, model, pipeline, call>>

\* `final = text.strip()` and the return
ExtractReturn ==
    /\ ExtractAt("Done")
    /\ ret' = [outcome |-> "return", value |-> Strip(ret.text), ran |-> ret.ran]
    /\ UNCHANGED <<model_name, tokenizer, model, pipeline, call>>

\* the calls taken stage by stage: those of ExtractInputs whose pages fail
\* recognition, if they do, for the missing engine (every exception inside the
\* page's try is handled alike)
StagedExtractInputs ==
    {c \in ExtractInputs :
        \A i \in 1..Len(c.doc.pages) :
            c.doc.pages[i].ocr.kind = "raise" =>
                c.doc.pages[i].ocr.exc = "TesseractNotFoundError"}

InitExtractStages ==
    /\ model_name = None /\ tokenizer = None /\ model = None /\ pipeline = None
    /\ call \in StagedExtractInputs
    /\ ret = Pending

NextExtractStages ==
    \/ StructuredStage
    \/ LayoutRepairStage
    \/ LayoutRepairSkipped
    \/ OcrStage
    \/ OcrSkipped
    \/ ExtractReturn

SpecExtractStages == InitExtractStages /\ [][NextExtractStages]_vars

\* ---------------------------------------------------- claims on chunk_text
ChunkReturned == call.op = "chunk_text" /\ ret.outcome # "pending"

ValidChunkConfig ==
    call.chunk_size > 0 /\ 0 <= call.overlap /\ call.overlap < call.chunk_size

\* the token span the sliding window gives chunk i (1-based), 0-based and
\* end-exclusive
SpanLo(i) == (i - 1) * (call.chunk_size - call.overlap)
SpanHi(i) == Min2(SpanLo(i) + call.chunk_size, Len(call.enc))
SpanIdx(i) == SpanLo(i)..(SpanHi(i) - 1)

Ceil(a, b) == (a + b - 1) \div b

\* C1: for a valid configuration and a non-empty token sequence of length T,
\* chunk i is the decoded token span [i*step, min(i*step + chunk_size, T)),
\* consecutive chunks share exactly `overlap` tokens, every chunk but the last
\* has exactly chunk_size tokens, and the last chunk's right edge is T.
C1_ChunkSpans ==
    (ChunkReturned /\ ValidChunkConfig /\ Len(call.enc) > 0) =>
        /\ ret.outcome = "return"
        /\ LET chunks == ret.value
               n == Len(chunks)
           IN  /\ n >= 1
               /\ \A i \in 1..n :
                     chunks[i] =
                         Strip(Decode(SubSeq(call.enc, SpanLo(i) + 1, SpanHi(i))))
               /\ \A i \in 1..(n - 1) :
                     /\ SpanHi(i) - SpanLo(i) = call.chunk_size
                     /\ Cardinality(SpanIdx(i) \cap SpanIdx(i + 1)) = call.overlap
               /\ SpanHi(n) = Len(call.enc)

\* a call that returned three or more overlapping chunks, the last one short
C1_Witness ==
    /\ ChunkReturned /\ ValidChunkConfig
    /\ ret.outcome = "return"
    /\ Len(ret.value) >= 3
    /\ call.overlap >= 1
    /\ SpanHi(Len(ret.value)) - SpanLo(Len(ret.value)) < call.chunk_size

IsTestChunkCall ==
    /\ call.op = "chunk_text"
    /\ Len(call.enc) = TestTokens
    /\ call.chunk_size = TestChunkSize
    /\ call.overlap = TestOverlap

\* C2: for a valid configuration chunk_text returns 0 chunks when T = 0, one
\* chunk when 0 < T <= overlap and ceil((T - overlap) / (chunk_size - overlap))
\* chunks when T > overlap; no chunk is an empty window; the 1200-token text
\* with chunk_size 256 and overlap 32 gives 6 chunks, the last one shorter
\* than 256 tokens.
C2_ChunkCount ==
    (ChunkReturned /\ ValidChunkConfig) =>
        /\ ret.outcome = "return"
        /\ LET T == Len(call.enc)
               n == Len(ret.value)
           IN  /\ n = (IF T = 0 THEN 0
                       ELSE IF T <= call.overlap THEN 1
                       ELSE Ceil(T - call.overlap,
                                 call.chunk_size - call.overlap))
               /\ \A i \in 1..n : ret.value[i] # <<>>
               /\ IsTestChunkCall =>
                     /\ n = 6
                     /\ WordCount(ret.value[n]) < TestChunkSize

\* the 1200-token text has been chunked
C2_Witness ==
    /\ ChunkReturned /\ IsTestChunkCall
    /\ ret.outcome = "return"
    /\ Len(ret.value) = 6

\* -------------------------------------------------- claims on Summarizer
SummarizerVars == <<model_name, tokenizer, model, pipeline>>

\* a step in which summarize_chunks or aggregate_summaries is called while no
\* summarization capability is set
UnloadedCallStep ==
    /\ pipeline = None
    /\ call = Idle
    /\ call'.op \in {"summarize_chunks", "aggregate_summaries"}

\* C3 as claimed: in the Unloaded state summarize_chunks and aggregate_summaries
\* both fail with ModelNotLoaded (RuntimeError) for every input sequence, the
\* empty one included, without invoking the capability or changing the
\* Summarizer.
C3_UnloadedAlwaysFails ==
    [][UnloadedCallStep =>
          /\ ret'.outcome = "RuntimeError"
          /\ ret'.calls = <<>>
          /\ UNCHANGED SummarizerVars]_vars

\* C3 amended: in the Unloaded state summarize_chunks fails with ModelNotLoaded
\* for every input and aggregate_summaries fails with it for every non-empty
\* input, while aggregate_summaries of the empty sequence returns the empty
\* string without an error; no such call invokes the capability or changes the
\* Summarizer.
C3_UnloadedFails ==
    [][UnloadedCallStep =>
          /\ ret'.calls = <<>>
          /\ UNCHANGED SummarizerVars
          /\ IF call'.op = "aggregate_summaries" /\ call'.chunk_summaries = <<>>
             THEN ret'.outcome = "return" /\ ret'.value = <<>>
             ELSE ret'.outcome = "RuntimeError"]_vars

\* summarize_chunks of the empty sequence has raised on a Summarizer whose
\* load_model raised after building the tokenizer
C3_Witness ==
    /\ pipeline = None
    /\ tokenizer # None
    /\ call.op = "summarize_chunks"
    /\ call.chunks = <<>>
    /\ ret.outcome = "RuntimeError"

LoadedSummarizeCall == call.op = "summarize_chunks" /\ pipeline # None

\* one summary per chunk, summary i from chunk i, one capability call per
\* consecutive batch of at most batch_size chunks
SummarizeContract ==
    /\ ret.outcome = "return"
    /\ LET chunks == call.chunks
           n == Len(chunks)
           bs == call.batch_size
       IN  /\ Len(ret.value) = n
           /\ \A i \in 1..n : ret.value[i] = Strip(SummaryText(chunks[i]))
           /\ Len(ret.calls) = Ceil(n, bs)
           /\ \A k \in 1..Len(ret.calls) :
                 /\ ret.calls[k] = SubSeq(chunks, (k - 1) * bs + 1, Min2(k * bs, n))
                 /\ Len(ret.calls[k]) <= bs

\* C4 as claimed: in the Loaded state, for every chunk sequence and every
\* non-negative batch_size, summarize_chunks returns one summary per chunk in
\* input order, with one capability call per batch of at most batch_size chunks.
C4_SummarizeNonNegativeBatch ==
    (LoadedSummarizeCall /\ call.batch_size >= 0) => SummarizeContract

\* C4 amended: the same for every positive batch_size (batch_size = 0 raises
\* ValueError from range()).
C4_SummarizePositiveBatch ==
    (LoadedSummarizeCall /\ call.batch_size > 0) => SummarizeContract

\* three chunks, one of them empty, summarized in batches of two
C4_Witness ==
    /\ LoadedSummarizeCall
    /\ call.batch_size = 2
    /\ Len(call.chunks) = 3
    /\ \E i \in 1..3 : call.chunks[i] = <<>>
    /\ ret.outcome = "return"
    /\ Len(ret.calls) = 2

LoadedAggregateCall ==
    /\ call.op = "aggregate_summaries"
    /\ pipeline # None
    /\ call.chunk_summaries # <<>>

\* C5: in the Loaded state, for a non-empty chunk-summary sequence,
\* aggregate_summaries makes no capability call and returns the stripped
\* blank-line-joined concatenation when its word count is <= final_min_length;
\* otherwise it makes exactly one call, on the full concatenation, and returns
\* that call's stripped result.
C5_Aggregate ==
    LoadedAggregateCall =>
        LET concat == Join(call.chunk_summaries, <<"\n", "\n">>)
            words == Cardinality({i \in 1..Len(concat) :
                         /\ ~IsWs(concat[i])
                         /\ (i = 1 \/ IsWs(concat[i - 1]))})
        IN  /\ ret.outcome = "return"
            /\ words <= call.final_summary_min_length =>
                  /\ ret.calls = <<>>
                  /\ ret.value = Strip(concat)
            /\ words > call.final_summary_min_length =>
                  /\ ret.calls = <<concat>>
                  /\ ret.value = Strip(SummaryText(concat))

\* a concatenation of two words against final_min_length 1 went through the
\* capability once, and its result was stripped
C5_Witness ==
    /\ LoadedAggregateCall
    /\ call.final_summary_min_length = 1
    /\ Len(ret.calls) = 1
    /\ WordCount(ret.calls[1]) = 2
    /\ ret.value # SummaryText(ret.calls[1])

\* C8: after any sequence of load_model calls, each completing or raising
\* part-way, the tokenizer, the model and the summarization capability all
\* belong to the identifier recorded as the currently loaded model.
C8_ComponentsOfLoadedModel ==
    model_name # None =>
        /\ tokenizer = model_name
        /\ model = model_name
        /\ pipeline = model_name

\* ------------------------------------------- claims on _layout_aware_fix
LayoutReturned == call.op = "layout_aware_fix" /\ ret.outcome # "pending"

\* the kinds of the lines of an input line sequence
BlankAt(lines, i) == \A k \in 1..Len(lines[i]) : IsWs(lines[i][k])
LongAt(lines, i) == ~BlankAt(lines, i) /\ Len(lines[i]) >= LongLine
ShortAt(lines, i) == ~BlankAt(lines, i) /\ Len(lines[i]) < LongLine

\* the lines that open a paragraph: a long line, or a short line that does not
\* follow a short line
ParaStarts(lines) ==
    {i \in 1..Len(lines) :
        \/ LongAt(lines, i)
        \/ (ShortAt(lines, i) /\ (i = 1 \/ ~ShortAt(lines, i - 1)))}

\* the last line of the paragraph line i opens: i itself for a long line, else
\* the end of the run of consecutive short lines
ParaEnd(lines, i) ==
    IF LongAt(lines, i) THEN i
    ELSE CHOOSE j \in i..Len(lines) :
            /\ \A k \in i..j : ShortAt(lines, k)
            /\ (j = Len(lines) \/ ~ShortAt(lines, j + 1))

ParaText(lines, i) ==
    Join([k \in 1..(ParaEnd(lines, i) - i + 1) |-> Strip(lines[i + k - 1])], Space)

\* the paragraphs in input order
ExpectedParagraphs(lines) ==
    LET starts == ParaStarts(lines)
    IN  [n \in 1..Cardinality(starts) |->
            ParaText(lines, CHOOSE i \in starts :
                                Cardinality({j \in starts : j <= i}) = n)]

\* C9: the Layout Normalizer's output is exactly the following paragraphs,
\* separated by blank lines: each non-blank line of 120 or more characters by
\* itself, and each maximal run of consecutive non-blank lines shorter than 120
\* characters joined in input order by single spaces; so no paragraph spans a
\* blank line and no long line shares a paragraph with a neighbour.
C9_LayoutParagraphs ==
    LayoutReturned =>
        LET lines == SplitLines(call.raw_text)
        IN  ret.value = Join(ExpectedParagraphs(lines), BlankLineSep)

\* a long line between two short lines has been normalized
C9_Witness ==
    /\ LayoutReturned
    /\ LET lines == SplitLines(call.raw_text)
       IN  /\ Len(lines) = 3
           /\ ShortAt(lines, 1) /\ LongAt(lines, 2) /\ ShortAt(lines, 3)
           /\ Cardinality(ParaStarts(lines)) = 3

\* --------------------------------------- claims on extract_text_from_pdf
ExtractDone == call.op = "extract_text_from_pdf" /\ ret.outcome # "pending"

\* the OCR stage ran on an opened document with pages, and on every page
\* pytesseract raised because the engine is missing or failing
OcrEngineUnavailable ==
    /\ ret.stages.ran_ocr
    /\ call.doc.fitz_opens
    /\ Len(call.doc.pages) >= 1
    /\ \A i \in 1..Len(call.doc.pages) :
          /\ call.doc.pages[i].ocr.kind = "raise"
          /\ call.doc.pages[i].ocr.exc \in {"TesseractNotFoundError", "TesseractError"}

\* C6: whenever extract reaches the OCR stage and the OCR engine cannot run at
\* all on any page, extract fails with the fatal OCRUnavailable error
\* (RuntimeError) instead of returning the working text.
C6_OcrUnavailableRaised ==
    (ExtractDone /\ OcrEngineUnavailable) => ret.outcome = "RuntimeError"

\* C7: a later-stage candidate (the layout-normalized text, then the OCR text)
\* replaces the working text only when it is strictly longer; on a tie or a
\* shorter candidate the earlier text is kept, so the working text never gets
\* shorter from one stage to the next.
C7_StrictlyLongerReplaces ==
    ExtractDone =>
        LET st == ret.stages
            ocr_ok == st.ran_ocr /\ st.ocr_raised = "none"
        IN  /\ st.ran_layout =>
                  st.repaired = (IF Len(st.text_fixed) > Len(st.stage1)
                                 THEN st.text_fixed ELSE st.stage1)
            /\ ~st.ran_layout => st.repaired = st.stage1
            /\ ocr_ok =>
                  st.after_ocr = (IF Len(st.ocr_text) > Len(st.repaired)
                                  THEN st.ocr_text ELSE st.repaired)
            /\ ~ocr_ok => st.after_ocr = st.repaired
            /\ Len(st.stage1) <= Len(st.repaired)
            /\ Len(st.repaired) <= Len(st.after_ocr)

\* the repair stage and the OCR stage both ran, the OCR text differs from the
\* working text and has its length, and the working text was kept
C7_Witness ==
    /\ ExtractDone
    /\ ret.stages.ran_layout
    /\ ret.stages.ran_ocr
    /\ ret.stages.ocr_raised = "none"
    /\ ret.stages.ocr_text # ret.stages.repaired
    /\ Len(ret.stages.ocr_text) = Len(ret.stages.repaired)
    /\ ret.stages.after_ocr = ret.stages.repaired
    /\ ret.value = ret.stages.stage1

\* the page texts the structured stage obtained, failed pages left out
ExtractedPageTexts ==
    LET Got(p) == p.extract.kind = "text" /\ p.extract.text # <<>>
        got == SelectSeq(call.doc.pages, Got)
    IN  [i \in 1..Len(got) |-> got[i].extract.text]

\* the page texts the OCR stage recognised, failed pages left out
OcrPageTexts ==
    LET Got(p) == p.ocr.kind = "text"
        got == SelectSeq(call.doc.pages, Got)
    IN  [i \in 1..Len(got) |-> got[i].ocr.text]

\* C10: in the structured-extraction stage and in the OCR stage a failure on
\* one page costs only that page's text: the stage goes on with the remaining
\* pages, its output keeps the text of the other pages, and nothing is raised
\* to the caller of extract.
C10_PageFailureIsSoft ==
    ExtractDone =>
        /\ ret.outcome = "return"
        /\ call.doc.plumber_opens =>
              ret.stages.stage1 = Strip(Join(ExtractedPageTexts, BlankLineSep))
        /\ (ret.stages.ran_ocr /\ call.doc.fitz_opens) =>
              ret.stages.ocr_text = Strip(Join(OcrPageTexts, BlankLineSep))

\* ----------------------- claims on the stages of extract_text_from_pdf
\* the staged call returns what extract_text_from_pdf returns, having run the
\* stages it runs
StagesAgreeWithExtract ==
    (call.op = "extract_text_from_pdf" /\ ret.outcome = "return") =>
        LET whole == ExtractTextFromPdf(call.doc, call.ocr_threshold_chars)
        IN  /\ whole.outcome = "return"
            /\ ret.value = whole.value
            /\ ("LayoutRepair" \in {ret.ran[i] : i \in 1..Len(ret.ran)})
                   = whole.stages.ran_layout
            /\ ("OCR" \in {ret.ran[i] : i \in 1..Len(ret.ran)})
                   = whole.stages.ran_ocr

\* a step of a call to extract that stands before `stage`
StepFrom(stage) ==
    /\ call.op = "extract_text_from_pdf"
    /\ ret.outcome = "running"
    /\ ret.at = stage
    /\ ret' # ret

\* C11: extract runs its stages in the order structured extraction, layout
\* repair, OCR, done; the Layout Normalizer is run if and only if the stage-1
\* text is non-empty and shorter than 2 * ocr_threshold_chars, and OCR is
\* attempted if and only if the working text after the repair stage is empty
\* or shorter than ocr_threshold_chars, so never when the working text has at
\* least ocr_threshold_chars characters.
C11_StageOrderAndGuards ==
    [][/\ (call.op = "extract_text_from_pdf" /\ ret = Pending /\ ret' # ret) =>
            /\ ret'.outcome = "running"
            /\ ret'.at = "LayoutRepair"
            /\ ret'.ran = <<"Structured">>
       /\ StepFrom("LayoutRepair") =>
            /\ ret'.outcome = "running"
            /\ ret'.at = "OCR"
            /\ ret'.ran =
                  (IF ret.text # <<>> /\ Len(ret.text) < 2 * call.ocr_threshold_chars
                   THEN Append(ret.ran, "LayoutRepair") ELSE ret.ran)
            /\ ret'.ran = ret.ran => ret'.text = ret.text
       /\ StepFrom("OCR") =>
            /\ ret'.outcome = "running"
            /\ ret'.at = "Done"
            /\ ret'.ran =
                  (IF ret.text = <<>> \/ Len(ret.text) < call.ocr_threshold_chars
                   THEN Append(ret.ran, "OCR") ELSE ret.ran)
            /\ Len(ret.text) >= call.ocr_threshold_chars => ret'.ran = ret.ran
            /\ ret'.ran = ret.ran => ret'.text = ret.text
       /\ StepFrom("Done") =>
            /\ ret'.outcome = "return"
            /\ ret'.ran = ret.ran
            /\ ret'.value = Strip(ret.text)
      ]_vars

\* a call whose stage-1 text has exactly ocr_threshold_chars characters: the
\* layout repair ran and OCR did not
C11_Witness ==
    /\ call.op = "extract_text_from_pdf"
    /\ ret.outcome = "return"
    /\ ret.ran = <<"Structured", "LayoutRepair">>
    /\ Len(ret.value) = call.ocr_threshold_chars

====
